---- MODULE Spec2Model ----
(***************************************************************************)
(* A model of the price_hunt scraping pipeline:                            *)
(*   - RyansScraper / StarTechScraper (.scrape, .extract_details,          *)
(*     .extract) run as cooperative asyncio coroutines; one action per     *)
(*     stretch of code between two awaits;                                 *)
(*   - ProductComparisonView.get_scraped_data, which gathers both scrapes; *)
(*   - RateLimiter.wait and ProductDetailExtractor (common.py).            *)
(* HttpClientFetcher, PlaywrightClientFetcher and SmartFetcher are         *)
(* imported from scraper.common but their code is not in the source tree:  *)
(* their behaviour is taken from the design document (LightFetcher,        *)
(* RenderFetcher, AdaptiveFetcher).                                        *)
(***************************************************************************)
EXTENDS Integers, Sequences, FiniteSets, TLC

\* ------------------------------------------------------------------ bounds
\* The most products (anchors / JSON items) a search result carries: when one
\* scraper is run alone, and when the view runs both.
MaxItems == 3
MaxItemsCompare == 1
\* The most products one call of ProductDetailExtractor.extract_details gets.
MaxProducts == 3
\* The clock of the rate limiter runs in ticks, up to MaxTicks.
TicksPerSecond == 4
MaxTicks == 6
\* The most candidates a search gives when two calls of scrape() overlap.
MaxSharedItems == 2

\* ------------------------------------------------------------- the scrapers
Sites == {"ryans", "startech"}

VARIABLES
    pc,        \* per site: where scrape() stands
    session,   \* per site: client_session: "none" | "open" | "closed"
    pw,        \* per site: playwright_fetcher: "none" | "created" | "started" | "stopped"
    mode,      \* per site: the SmartFetcher's mode: "none" | "Light" | "Render"
    cands,     \* per site: the products of the search result (history of `products`)
    tasks,     \* per site: the extract() coroutines gather() runs, in launch order
    out,       \* per site: what scrape() returns or raises
    nClose,    \* per site: calls of client_session.close()
    nStop,     \* per site: calls of playwright_fetcher.stop()
    lightInRender, \* per site: LightFetcher was called while the mode was Render
    renderDirect,  \* per site: a fetch went to RenderFetcher without trying LightFetcher
    search,    \* per site: how the search ended (history)
    view,      \* ProductComparisonView.get_scraped_data: its state and result
    limit      \* the most items the sites answer a search with (fixed by Init)

\* ProductDetailExtractor and its RateLimiter (common.py)
VARIABLES
    now,        \* time.time(), in ticks
    lastCall,   \* RateLimiter.last_call
    grantLog,   \* the times at which wait() returned, in order (history)
    sem,        \* ProductDetailExtractor._playwright_sem: its free slots
    ptasks,     \* the _process_product coroutines, in launch order
    pde,        \* extract_details: client type, position, browser, result
    doneLog     \* the tasks in the order they completed (history)

\* One call of extract(url) of a scraper, taken alone.
VARIABLES
    exSite,     \* the scraper
    exUrl,      \* the url passed
    exIn,       \* what smart_fetcher.fetch(url) gives
    exOut       \* what extract(url) gives: NoResult until it has run

\* Two calls of scrape() that overlap, on one scraper object or on two.
VARIABLES
    instOf,        \* per call: the scraper object it was called on
    smart_fetcher, \* per scraper object: self.smart_fetcher, 0 for None
    calls          \* per call: where it stands, its session, its render
                   \* fetcher and its extract() tasks

\* One call of AsyncCallAPIClient.search (common.py).
VARIABLES
    api            \* where it stands, its browser, the calls of
                   \* browser.close(), what it returns

svars == <<pc, session, pw, mode, cands, tasks, out, nClose, nStop, lightInRender,
           renderDirect, search, view, limit>>
pvars == <<now, lastCall, grantLog, sem, ptasks, pde, doneLog>>
xvars == <<exSite, exUrl, exIn, exOut>>
cvars == <<instOf, smart_fetcher, calls>>
avars == <<api>>
vars == <<svars, pvars, xvars, cvars, avars>>


\* ------------------------------------------------------------ page contents
\* A product page, by the elements extract() looks for.
\*   name : the name heading is present
\*   price: "none" (no price element) | "plain" (price only) | "ins" (a sale
\*          price tag inside the price cell, beside the list price)
\*   div  : the description container is present
\*   ul   : the list inside the description container is present
Pages == [name : BOOLEAN, price : {"none", "plain", "ins"}, div : BOOLEAN, ul : BOOLEAN]

\* What smart_fetcher.fetch(url) hands to its caller: a page, no content
\* (None or an empty string), or an exception.
NoPage == [name |-> FALSE, price |-> "none", div |-> FALSE, ul |-> FALSE]
Fetched(k, p) == [kind |-> k, page |-> p]

\* The values extract() produces.
Rec(u, p, d) == [kind |-> "rec", url |-> u, name |-> "name", price |-> p, description |-> d]
EmptyDict == [kind |-> "empty", url |-> 0, name |-> "", price |-> "", description |-> ""]
Raised == [kind |-> "raised", url |-> 0, name |-> "", price |-> "", description |-> ""]
NoResult == [kind |-> "none", url |-> 0, name |-> "", price |-> "", description |-> ""]

\* RyansScraper.extract: everything is inside try/except, every failure is {}.
RyansExtract(u, f) ==
    IF f.kind = "raise" THEN EmptyDict
    ELSE IF f.kind = "none" THEN EmptyDict
    ELSE IF ~f.page.div THEN EmptyDict
    ELSE IF f.page.name /\ f.page.price # "none" /\ f.page.ul
         THEN Rec(u, "list", "ul")
         ELSE EmptyDict

\* StarTechScraper.extract: no try/except; a missing element is an
\* AttributeError on None, no content is an error in the parser or on None.
StarTechExtractListPrice(u, f) ==
    IF f.kind # "content" \/ ~f.page.name \/ f.page.price = "none" \/ ~f.page.div
    THEN Raised
    ELSE Rec(u, "list", IF f.page.ul THEN "ul" ELSE "")
StarTechExtract(u, f) ==
    IF f.kind = "raise" THEN Raised
    ELSE IF f.kind = "none" THEN Raised
    ELSE IF ~f.page.name THEN Raised
    ELSE IF f.page.price = "none" THEN Raised
    ELSE IF ~f.page.div THEN Raised
    ELSE Rec(u, IF f.page.price = "ins" THEN "sale" ELSE "list",
                IF f.page.ul THEN "ul" ELSE "")

Extract(s, u, f) == IF s = "ryans" THEN RyansExtract(u, f) ELSE StarTechExtract(u, f)

\* ------------------------------------------------------------ SmartFetcher
\* (design document 4.3-4.5; the class itself is not in the source tree)
LightOutcomes == {"ok", "blocked", "denied", "failed"}
RenderOutcomes == {"ok", "empty", "failed"}
\* A Failed fetch reaches the caller as no content or as an exception.
FailKinds == {"none", "raise"}

\* Step 1/2 of AdaptiveFetcher.fetch: the fetcher a call starts with.
FetchPathAlwaysLight(m) == "light"
FetchPath(m) == IF m = "Render" THEN "render" ELSE "light"

\* The mode after a LightFetcher outcome: Blocked, or Failed with an
\* access-denied status, switches to Render for good.
ModeAfterLight(m, o) == IF o \in {"blocked", "denied"} THEN "Render" ELSE m

\* RenderFetcher is started lazily, on its first fetch.
PwAfterRenderCall(p) == IF p = "created" THEN "started" ELSE p

\* ----------------------------------------------------------- search results
Items(s) == IF s = "ryans"
            THEN [href : BOOLEAN, typed : {FALSE}]
            ELSE [href : BOOLEAN, typed : BOOLEAN]
ItemLists(s) == UNION {[1..n -> Items(s)] : n \in 0..limit}
\* The body of the search response: empty, not parsable, or a list of items.
SearchContents(s) ==
    {[kind |-> "empty", items |-> <<>>], [kind |-> "invalid", items |-> <<>>]}
    \cup {[kind |-> "list", items |-> l] : l \in ItemLists(s)}

Idx(n) == [i \in 1..n |-> i]

\* all_products, as indices into the search result's items.
\* ryans.py 87-89: anchors with an href; startech.py 76: items without a type.
AllProductsKeepsTyped(s, items) == SelectSeq(Idx(Len(items)), LAMBDA i : items[i].href)
AllProducts(s, items) ==
    IF s = "ryans"
    THEN SelectSeq(Idx(Len(items)), LAMBDA i : items[i].href)
    ELSE SelectSeq(Idx(Len(items)), LAMBDA i : ~items[i].typed)

\* extract_details: one extract() per product with a non-empty href.
LaunchedWithoutHrefCheck(s, items) == AllProducts(s, items)
Launched(s, items) == SelectSeq(AllProducts(s, items), LAMBDA i : items[i].href)

NewTask(u) == [url |-> u, pc |-> "ready", res |-> NoResult]
NewTasks(s, items) ==
    [k \in 1..Len(Launched(s, items)) |-> NewTask(Launched(s, items)[k])]

Return(v) == [kind |-> "return", val |-> v]
Raise == [kind |-> "raise", val |-> <<>>]
Cancelled == [kind |-> "cancel", val |-> <<>>]
NoOut == [kind |-> "none", val |-> <<>>]

\* ------------------------------------------------------- scrape(): helpers
\* "if not search_result: return []", and the returns of the except clauses:
\* the value is fixed, the finally clause runs next.
ToFinally(s, o) ==
    /\ out' = [out EXCEPT ![s] = o]
    /\ pc' = [pc EXCEPT ![s] = "close"]

\* The except clause of the search (ryans.py 75-79, startech.py 62-66):
\* with both objects made it closes and stops them, then falls through to
\* "if not search_result: return []".
ToHandler(s) ==
    /\ pc' = [pc EXCEPT ![s] = "hclose"]
    /\ out' = out

\* ryans.py 81-92, startech.py 68-80: from the search result to gather().
\* c is the content smart_fetcher.fetch returned.
ProcessSearch(s, c) ==
    /\ search' = [search EXCEPT ![s] = c.kind]
    /\ IF c.kind = "empty"
       THEN /\ ToFinally(s, Return(<<>>))
            /\ UNCHANGED <<cands, tasks>>
       ELSE IF s = "startech" /\ c.kind = "invalid"
       THEN \* json.loads raises; except Exception: return []
            /\ ToFinally(s, Return(<<>>))
            /\ UNCHANGED <<cands, tasks>>
       ELSE IF s = "startech" /\ c.items = <<>>
       THEN \* if not products: return []
            /\ ToFinally(s, Return(<<>>))
            /\ UNCHANGED <<cands, tasks>>
       ELSE /\ cands' = [cands EXCEPT ![s] = c.items]
            /\ tasks' = [tasks EXCEPT ![s] = NewTasks(s, c.items)]
            /\ IF NewTasks(s, c.items) = <<>>
               THEN \* gather() of nothing is [] at once
                    ToFinally(s, Return(<<>>))
               ELSE /\ pc' = [pc EXCEPT ![s] = "gather"]
                    /\ out' = out

\* A Failed search fetch: no content (search_result stays falsy) or an
\* exception (the except clause).
SearchFailed(s, how) ==
    /\ search' = [search EXCEPT ![s] = IF how = "none" THEN "failed" ELSE "raised"]
    /\ UNCHANGED <<cands, tasks>>
    /\ IF how = "none" THEN ToFinally(s, Return(<<>>)) ELSE ToHandler(s)

\* ------------------------------------------------------- scrape(): actions
\* ryans.py 61-74, startech.py 48-61: the locals, the four constructors and
\* the call of smart_fetcher.fetch(url), up to its first await.  A
\* constructor may raise: fail names the first that does.
ScrapeStart(s) ==
    /\ pc[s] = "called"
    /\ \E fail \in {"no", "session", "http", "playwright", "smart"} :
         /\ session' = [session EXCEPT ![s] = IF fail = "session" THEN "none" ELSE "open"]
         /\ pw' = [pw EXCEPT ![s] = IF fail \in {"no", "smart"} THEN "created" ELSE "none"]
         /\ mode' = [mode EXCEPT ![s] = IF fail = "no" THEN "Light" ELSE "none"]
         /\ search' = [search EXCEPT ![s] = IF fail = "no" THEN "none" ELSE "ctor"]
         /\ IF fail = "no"
            THEN /\ pc' = [pc EXCEPT ![s] = "s_light"]
                 /\ out' = out
            ELSE IF fail = "smart"
            THEN ToHandler(s)
            ELSE \* "if client_session and playwright_fetcher" is false in
                 \* the except clause and in the finally clause
                 /\ out' = [out EXCEPT ![s] = Return(<<>>)]
                 /\ pc' = [pc EXCEPT ![s] = "done"]
    /\ UNCHANGED <<cands, tasks, nClose, nStop, lightInRender, renderDirect, view, limit, pvars, xvars, cvars, avars>>

\* gather() in the view schedules both scrapes; each runs to its first await
\* before the event loop delivers any completion.
Started == \A s \in Sites : pc[s] # "called"

\* The LightFetcher call of the search fetch completes.
SearchLightDone(s) ==
    /\ pc[s] = "s_light"
    /\ Started
    /\ \E o \in LightOutcomes :
         /\ mode' = [mode EXCEPT ![s] = ModeAfterLight(mode[s], o)]
         /\ IF o = "ok"
            THEN /\ \E c \in SearchContents(s) : ProcessSearch(s, c)
                 /\ pw' = pw
            ELSE IF ModeAfterLight(mode[s], o) = "Render"
            THEN /\ pw' = [pw EXCEPT ![s] = PwAfterRenderCall(pw[s])]
                 /\ pc' = [pc EXCEPT ![s] = "s_render"]
                 /\ UNCHANGED <<cands, tasks, out, search>>
            ELSE /\ \E how \in FailKinds : SearchFailed(s, how)
                 /\ pw' = pw
    /\ UNCHANGED <<session, nClose, nStop, lightInRender, renderDirect, view, limit, pvars, xvars, cvars, avars>>

\* The RenderFetcher call of the search fetch completes.
SearchRenderDone(s) ==
    /\ pc[s] = "s_render"
    /\ \E o \in RenderOutcomes :
         IF o = "ok"
         THEN \E c \in SearchContents(s) : ProcessSearch(s, c)
         ELSE \E how \in FailKinds : SearchFailed(s, how)
    /\ UNCHANGED <<session, pw, mode, nClose, nStop, lightInRender, renderDirect, view, limit, pvars, xvars, cvars, avars>>

\* playwright_fetcher.stop(): nothing to stop unless the browser was
\* started; stopping a started browser may fail (ok = FALSE), and then the
\* browser is still there.
PwAfterStop(p, ok) == IF p = "started" /\ ok THEN "stopped" ELSE p
StopRaises(p, ok) == p = "started" /\ ~ok

\* except clause, "await client_session.close()".
HandlerClose(s) ==
    /\ pc[s] = "hclose"
    /\ Started
    /\ session' = [session EXCEPT ![s] = "closed"]
    /\ nClose' = [nClose EXCEPT ![s] = @ + 1]
    /\ pc' = [pc EXCEPT ![s] = "hstop"]
    /\ UNCHANGED <<pw, mode, cands, tasks, out, nStop, lightInRender, renderDirect, search, view, limit, pvars, xvars, cvars, avars>>

\* except clause, "await playwright_fetcher.stop()"; then "if not
\* search_result: return []".  An exception of stop() is caught by the outer
\* except clause, which returns [] as well.
HandlerStop(s) ==
    /\ pc[s] = "hstop"
    /\ \E ok \in BOOLEAN : pw' = [pw EXCEPT ![s] = PwAfterStop(pw[s], ok)]
    /\ nStop' = [nStop EXCEPT ![s] = @ + 1]
    /\ ToFinally(s, Return(<<>>))
    /\ UNCHANGED <<session, mode, cands, tasks, nClose, lightInRender, renderDirect, search, view, limit, pvars, xvars, cvars, avars>>

\* ------------------------------------------------ the extract() coroutines
\* The tasks of gather() run while scrape() is suspended in gather() or in
\* its finally clause: gather() does not cancel the others when one raises.
Running(s) == pc[s] \in {"gather", "close", "stop"}

\* gather() schedules the coroutines in order, and the event loop runs each
\* to its first await before it delivers the completion of any fetch.
Launching(s) == \E i \in DOMAIN tasks[s] : tasks[s][i].pc = "ready"

SetTask(s, i, p, r) == tasks' = [tasks EXCEPT ![s][i] = [url |-> @.url, pc |-> p, res |-> r]]

\* extract(url) up to the first await inside smart_fetcher.fetch(url).
TaskStart(s, i) ==
    /\ Running(s)
    /\ i \in DOMAIN tasks[s]
    /\ tasks[s][i].pc = "ready"
    /\ \A j \in 1..(i - 1) : tasks[s][j].pc # "ready"
    /\ SetTask(s, i, FetchPath(mode[s]), NoResult)
    /\ pw' = [pw EXCEPT ![s] = IF FetchPath(mode[s]) = "render"
                                THEN PwAfterRenderCall(pw[s]) ELSE pw[s]]
    /\ lightInRender' = [lightInRender EXCEPT ![s] =
                            @ \/ (FetchPath(mode[s]) = "light" /\ mode[s] = "Render")]
    /\ renderDirect' = [renderDirect EXCEPT ![s] = @ \/ FetchPath(mode[s]) = "render"]
    /\ UNCHANGED <<pc, session, mode, cands, out, nClose, nStop, search, view, limit, pvars, xvars, cvars, avars>>

\* The LightFetcher call of a task completes; on Success or Failed the
\* rest of extract() runs to its end.
TaskLightDone(s, i) ==
    /\ Running(s)
    /\ i \in DOMAIN tasks[s]
    /\ tasks[s][i].pc = "light"
    /\ ~Launching(s)
    /\ \E o \in LightOutcomes :
         /\ mode' = [mode EXCEPT ![s] = ModeAfterLight(mode[s], o)]
         /\ IF o = "ok"
            THEN /\ \E p \in Pages :
                      SetTask(s, i, "done", Extract(s, tasks[s][i].url, Fetched("content", p)))
                 /\ pw' = pw
            ELSE IF ModeAfterLight(mode[s], o) = "Render"
            THEN /\ SetTask(s, i, "render", NoResult)
                 /\ pw' = [pw EXCEPT ![s] = PwAfterRenderCall(pw[s])]
            ELSE /\ \E how \in FailKinds :
                      SetTask(s, i, "done", Extract(s, tasks[s][i].url, Fetched(how, NoPage)))
                 /\ pw' = pw
    /\ UNCHANGED <<pc, session, cands, out, nClose, nStop, lightInRender, renderDirect, search, view, limit, pvars, xvars, cvars, avars>>

\* The RenderFetcher call of a task completes; the rest of extract() runs.
TaskRenderDone(s, i) ==
    /\ Running(s)
    /\ i \in DOMAIN tasks[s]
    /\ tasks[s][i].pc = "render"
    /\ ~Launching(s)
    /\ \E o \in RenderOutcomes :
         IF o = "ok"
         THEN \E p \in Pages :
                 SetTask(s, i, "done", Extract(s, tasks[s][i].url, Fetched("content", p)))
         ELSE \E how \in FailKinds :
                 SetTask(s, i, "done", Extract(s, tasks[s][i].url, Fetched(how, NoPage)))
    /\ UNCHANGED <<pc, session, pw, mode, cands, out, nClose, nStop, lightInRender, renderDirect, search, view, limit, pvars, xvars, cvars, avars>>

\* --------------------------------------------------- gather() and teardown
AllDone(s) == \A i \in DOMAIN tasks[s] : tasks[s][i].pc = "done"
SomeRaised(s) == \E i \in DOMAIN tasks[s] : tasks[s][i].res.kind = "raised"
Results(s) == [i \in DOMAIN tasks[s] |-> tasks[s][i].res]

\* "await asyncio.gather(*tasks)" in extract_details ends: with the first
\* exception of a task, which scrape() turns into "return []" (ryans.py
\* 95-97, startech.py 83-85), or with every task's value, in launch order.
GatherEnds(s) == SomeRaised(s) \/ AllDone(s)

GatherDone(s) ==
    /\ pc[s] = "gather"
    /\ GatherEnds(s)
    /\ ToFinally(s, IF SomeRaised(s) THEN Return(<<>>) ELSE Return(Results(s)))
    /\ UNCHANGED <<session, pw, mode, cands, tasks, nClose, nStop, lightInRender, renderDirect, search, view, limit, pvars, xvars, cvars, avars>>

\* finally, "if client_session and playwright_fetcher: await
\* client_session.close()".
FinallyClose(s) ==
    /\ pc[s] = "close"
    /\ IF session[s] # "none" /\ pw[s] # "none"
       THEN /\ session' = [session EXCEPT ![s] = "closed"]
            /\ nClose' = [nClose EXCEPT ![s] = @ + 1]
            /\ pc' = [pc EXCEPT ![s] = "stop"]
       ELSE /\ pc' = [pc EXCEPT ![s] = "done"]
            /\ UNCHANGED <<session, nClose>>
    /\ UNCHANGED <<pw, mode, cands, tasks, out, nStop, lightInRender, renderDirect, search, view, limit, pvars, xvars, cvars, avars>>

\* finally, "await playwright_fetcher.stop()": an exception of stop()
\* replaces the pending return value and leaves scrape().
FinallyStop(s) ==
    /\ pc[s] = "stop"
    /\ \E ok \in BOOLEAN :
         /\ pw' = [pw EXCEPT ![s] = PwAfterStop(pw[s], ok)]
         /\ out' = [out EXCEPT ![s] = IF StopRaises(pw[s], ok) THEN Raise ELSE @]
    /\ nStop' = [nStop EXCEPT ![s] = @ + 1]
    /\ pc' = [pc EXCEPT ![s] = "done"]
    /\ UNCHANGED <<session, mode, cands, tasks, nClose, lightInRender, renderDirect, search, view, limit, pvars, xvars, cvars, avars>>

\* ------------------------------------------------------ one call of scrape
\* main() of ryans.py / startech.py: one scraper, one call of scrape().
InitSites(called) ==
    /\ pc = [s \in Sites |-> IF s \in called THEN "called" ELSE "idle"]
    /\ session = [s \in Sites |-> "none"]
    /\ pw = [s \in Sites |-> "none"]
    /\ mode = [s \in Sites |-> "none"]
    /\ cands = [s \in Sites |-> <<>>]
    /\ tasks = [s \in Sites |-> <<>>]
    /\ out = [s \in Sites |-> NoOut]
    /\ nClose = [s \in Sites |-> 0]
    /\ nStop = [s \in Sites |-> 0]
    /\ lightInRender = [s \in Sites |-> FALSE]
    /\ renderDirect = [s \in Sites |-> FALSE]
    /\ search = [s \in Sites |-> "none"]

NoView == [pc |-> "idle", kind |-> "none", startech |-> <<>>, ryans |-> <<>>]

\* The parts of the model a specification does not run stay as they are here.
IdleScrapers == InitSites({}) /\ view = NoView /\ limit = 0
IdlePde ==
    /\ now = 0
    /\ lastCall = 0
    /\ grantLog = <<>>
    /\ sem = 0
    /\ ptasks = <<>>
    /\ pde = [client |-> "none", n |-> 0, pc |-> "idle", browser |-> "none",
              kind |-> "none", val |-> <<>>]
    /\ doneLog = <<>>
IdleExtract ==
    /\ exSite = "none"
    /\ exUrl = 0
    /\ exIn = Fetched("none", NoPage)
    /\ exOut = NoResult
CallIds == {1, 2}
NoCall == [pc |-> "idle", session |-> "none", pw |-> "none", tasks |-> <<>>]
IdleShared ==
    /\ instOf = [c \in CallIds |-> c]
    /\ smart_fetcher = [o \in CallIds |-> 0]
    /\ calls = [c \in CallIds |-> NoCall]
IdleApi == api = [pc |-> "idle", browser |-> "none", nClose |-> 0, out |-> "none"]

Init ==
    /\ \E s \in Sites : InitSites({s})
    /\ view = NoView
    /\ limit = MaxItems
    /\ IdlePde
    /\ IdleExtract
    /\ IdleShared
    /\ IdleApi

ScrapeStep(s) ==
    \/ ScrapeStart(s)
    \/ SearchLightDone(s)
    \/ SearchRenderDone(s)
    \/ HandlerClose(s)
    \/ HandlerStop(s)
    \/ \E i \in DOMAIN tasks[s] : TaskStart(s, i)
    \/ \E i \in DOMAIN tasks[s] : TaskLightDone(s, i)
    \/ \E i \in DOMAIN tasks[s] : TaskRenderDone(s, i)
    \/ GatherDone(s)
    \/ FinallyClose(s)
    \/ FinallyStop(s)

Next == \E s \in Sites : ScrapeStep(s)

Spec == Init /\ [][Next]_vars

\* ------------------------------------- ProductComparisonView (views.py)
\* get(): asyncio.run(get_scraped_data(product)); get_scraped_data awaits
\* gather(startech.scrape(..), ryans.scrape(..)).
InitCompare ==
    /\ InitSites(Sites)
    /\ view = [pc |-> "gather", kind |-> "none", startech |-> <<>>, ryans |-> <<>>]
    /\ limit = MaxItemsCompare
    /\ IdlePde
    /\ IdleExtract
    /\ IdleShared
    /\ IdleApi

\* views.py 40-44: both scrapes returned; the mapping is built.
ViewReturn ==
    /\ view.pc = "gather"
    /\ \A s \in Sites : pc[s] = "done" /\ out[s].kind = "return"
    /\ view' = [pc |-> "done", kind |-> "return",
                startech |-> out["startech"].val, ryans |-> out["ryans"].val]
    /\ UNCHANGED <<pc, session, pw, mode, cands, tasks, out, nClose, nStop,
                   lightInRender, renderDirect, search, limit, pvars, xvars, cvars, avars>>

\* views.py 40, 45-46: gather() raises the first exception of a scrape and
\* get_scraped_data re-raises it; get() answers with an error (views.py 33-34).
ViewRaises == \E s \in Sites : pc[s] = "done" /\ out[s].kind = "raise"

ViewRaise ==
    /\ view.pc = "gather"
    /\ ViewRaises
    /\ view' = [pc |-> "done", kind |-> "raise", startech |-> <<>>, ryans |-> <<>>]
    /\ UNCHANGED <<pc, session, pw, mode, cands, tasks, out, nClose, nStop,
                   lightInRender, renderDirect, search, limit, pvars, xvars, cvars, avars>>

\* asyncio.run (views.py 31) cancels what is still running once
\* get_scraped_data has raised: CancelledError is thrown into the scrape at
\* the await it is suspended in.  It is no Exception, so only the finally
\* clause runs; thrown inside the finally clause it ends the clause there.
CancelTasks(s) ==
    [i \in DOMAIN tasks[s] |->
        IF tasks[s][i].pc = "done" THEN tasks[s][i]
        ELSE [url |-> tasks[s][i].url, pc |-> "done", res |-> NoResult]]

Cancel(s) ==
    /\ view.pc = "done"
    /\ view.kind = "raise"
    /\ pc[s] \in {"s_light", "s_render", "hclose", "hstop", "gather", "close", "stop"}
    /\ tasks' = [tasks EXCEPT ![s] = CancelTasks(s)]
    /\ out' = [out EXCEPT ![s] = Cancelled]
    /\ IF pc[s] = "close"
       THEN \* inside client_session.close(): stop() is never called
            /\ pc' = [pc EXCEPT ![s] = "done"]
            /\ \E closed \in BOOLEAN :
                 session' = [session EXCEPT ![s] = IF closed THEN "closed" ELSE @]
            /\ nClose' = [nClose EXCEPT ![s] = @ + 1]
            /\ UNCHANGED <<pw, nStop>>
       ELSE IF pc[s] = "stop"
       THEN \* inside playwright_fetcher.stop()
            /\ pc' = [pc EXCEPT ![s] = "done"]
            /\ \E ok \in BOOLEAN : pw' = [pw EXCEPT ![s] = PwAfterStop(pw[s], ok)]
            /\ nStop' = [nStop EXCEPT ![s] = @ + 1]
            /\ UNCHANGED <<session, nClose>>
       ELSE /\ pc' = [pc EXCEPT ![s] = "close"]
            /\ UNCHANGED <<session, pw, nClose, nStop>>
    /\ UNCHANGED <<mode, cands, lightInRender, renderDirect, search, view, limit, pvars, xvars, cvars, avars>>

NextCompare ==
    \/ \E s \in Sites : ScrapeStep(s)
    \/ ViewReturn
    \/ ViewRaise
    \/ \E s \in Sites : Cancel(s)

SpecCompare == InitCompare /\ [][NextCompare]_vars

\* ------------------------------------------------- RateLimiter (common.py)
\* calls_per_second (its default) and interval = 1.0 / calls_per_second.
CallsPerSecond == 2
Interval == TicksPerSecond \div CallsPerSecond

\* wait(): "if elapsed < self.interval" with elapsed = now - last_call.
MustSleep(n, last) == n - last < Interval

\* -------------------------------------- ProductDetailExtractor (common.py)
\* asyncio.Semaphore(1)
SemCapacity == 1
\* Semaphore.acquire() takes a slot without waiting when one is free.
SemFreeAlways(v) == TRUE
SemFree(v) == v > 0
\* Leaving "async with self._playwright_sem" gives the slot back.
SemAfterReleaseLeaks(v) == v
SemAfterRelease(v) == v + 1

PResult(u, ok) == [url |-> u, details |-> ok]
PTask(u, p, w, r) == [url |-> u, pc |-> p, wake |-> w, res |-> r]
NewPTasks(n) == [k \in 1..n |-> PTask(k, "new", 0, PResult(k, FALSE))]
SetPTask(k, p, w, r) == ptasks' = [ptasks EXCEPT ![k] = PTask(@.url, p, w, r)]
\* gather() runs each coroutine to its first await, in order, before time
\* passes or anything completes.
PLaunching == \E k \in DOMAIN ptasks : ptasks[k].pc = "new"

SetPde(p, b, k, v) ==
    pde' = [client |-> pde.client, n |-> pde.n, pc |-> p, browser |-> b, kind |-> k, val |-> v]

InitPde ==
    /\ now = Interval
    /\ lastCall = 0
    /\ grantLog = <<>>
    /\ sem = SemCapacity
    /\ ptasks = <<>>
    /\ doneLog = <<>>
    /\ \E c \in {"aiohttp", "playwright"}, n \in 0..MaxProducts :
         pde = [client |-> c, n |-> n, pc |-> "start", browser |-> "none",
                kind |-> "none", val |-> <<>>]
    /\ IdleScrapers
    /\ IdleExtract
    /\ IdleShared
    /\ IdleApi

\* extract_details, common.py 129-135: the aiohttp branch makes its session
\* and the tasks and awaits gather(); the playwright branch goes on to launch
\* a browser.
PdeStart ==
    /\ pde.pc = "start"
    /\ IF pde.client = "aiohttp"
       THEN /\ ptasks' = NewPTasks(pde.n)
            /\ SetPde("gather", "none", "none", <<>>)
       ELSE /\ SetPde("launch", "none", "none", <<>>)
            /\ ptasks' = ptasks
    /\ UNCHANGED <<now, lastCall, grantLog, sem, doneLog, svars, xvars, cvars, avars>>

\* common.py 138-156: async_playwright() and firefox.launch(); a failure is
\* caught (167-169), result = [], and the finally clause finds no browser.
PdeLaunch ==
    /\ pde.pc = "launch"
    /\ \E ok \in BOOLEAN :
         IF ok THEN SetPde("context", "open", "none", <<>>)
               ELSE SetPde("done", "none", "return", <<>>)
    /\ UNCHANGED <<now, lastCall, grantLog, sem, ptasks, doneLog, svars, xvars, cvars, avars>>

\* common.py 157-166: new_context() and route(), then the tasks and gather();
\* a failure is caught, result = [], and the finally clause closes the browser.
PdeContext ==
    /\ pde.pc = "context"
    /\ \E ok \in BOOLEAN :
         IF ok THEN /\ ptasks' = NewPTasks(pde.n)
                    /\ SetPde("gather", pde.browser, "none", <<>>)
               ELSE /\ ptasks' = ptasks
                    /\ SetPde("closing", pde.browser, "return", <<>>)
    /\ UNCHANGED <<now, lastCall, grantLog, sem, doneLog, svars, xvars, cvars, avars>>

\* RateLimiter.wait() returns: last_call = time.time() (common.py 35); then
\* _process_product goes on to "async with self._playwright_sem" (190), which
\* takes the slot at once when it is free.
Grant(k) ==
    /\ lastCall' = now
    /\ grantLog' = Append(grantLog, now)
    /\ IF SemFree(sem)
       THEN /\ sem' = sem - 1
            /\ SetPTask(k, "extract", 0, ptasks[k].res)
       ELSE /\ sem' = sem
            /\ SetPTask(k, "semwait", 0, ptasks[k].res)

\* _process_product starts: wait() reads the clock (common.py 31-34) and
\* sleeps for the rest of the interval, or returns at once.
WaitEnter(k) ==
    /\ pde.pc = "gather"
    /\ ptasks[k].pc = "new"
    /\ \A j \in 1..(k - 1) : ptasks[j].pc # "new"
    /\ IF MustSleep(now, lastCall)
       THEN /\ SetPTask(k, "sleep", now + (Interval - (now - lastCall)), ptasks[k].res)
            /\ UNCHANGED <<lastCall, grantLog, sem>>
       ELSE Grant(k)
    /\ UNCHANGED <<now, pde, doneLog, svars, xvars, cvars, avars>>

\* asyncio.sleep() of wait() is over, at its time or later.
WaitWake(k) ==
    /\ ptasks[k].pc = "sleep"
    /\ now >= ptasks[k].wake
    /\ Grant(k)
    /\ UNCHANGED <<now, pde, doneLog, svars, xvars, cvars, avars>>

\* A waiter of the semaphore gets the slot that was freed.
SemAcquire(k) ==
    /\ ptasks[k].pc = "semwait"
    /\ ~PLaunching
    /\ SemFree(sem)
    /\ sem' = sem - 1
    /\ SetPTask(k, "extract", 0, ptasks[k].res)
    /\ UNCHANGED <<now, lastCall, grantLog, pde, doneLog, svars, xvars, cvars, avars>>

\* strategy.extract() ends (common.py 191-196): "async with" frees the slot
\* whether it returned or raised; the details go into the result, or the
\* error is logged.
ExtractDone(k) ==
    /\ ptasks[k].pc = "extract"
    /\ ~PLaunching
    /\ sem' = SemAfterRelease(sem)
    /\ \E ok \in BOOLEAN : SetPTask(k, "done", 0, PResult(ptasks[k].url, ok))
    /\ doneLog' = Append(doneLog, k)
    /\ UNCHANGED <<now, lastCall, grantLog, pde, svars, xvars, cvars, avars>>

\* Time passes.
Tick ==
    /\ pde.pc = "gather"
    /\ ~PLaunching
    /\ now < MaxTicks
    /\ now' = now + 1
    /\ UNCHANGED <<lastCall, grantLog, sem, ptasks, pde, doneLog, svars, xvars, cvars, avars>>

\* gather() of extract_details ends with every task's result, in launch
\* order (common.py 134, 166); the playwright branch goes to its finally.
PdeResultsAsCompleted(ts, log) == [k \in DOMAIN ts |-> ts[log[k]].res]
PdeResults(ts, log) == [k \in DOMAIN ts |-> ts[k].res]

PdeGatherDone ==
    /\ pde.pc = "gather"
    /\ \A k \in DOMAIN ptasks : ptasks[k].pc = "done"
    /\ SetPde(IF pde.client = "aiohttp" THEN "done" ELSE "closing", pde.browser,
              "return", PdeResults(ptasks, doneLog))
    /\ UNCHANGED <<now, lastCall, grantLog, sem, ptasks, doneLog, svars, xvars, cvars, avars>>

\* browser.close() in the finally clause.
BrowserLeftOpen(b) == b
BrowserAfterClose(b) == "closed"

\* common.py 170-173: "if browser: await browser.close()", "return result".
PdeClose ==
    /\ pde.pc = "closing"
    /\ SetPde("done", BrowserAfterClose(pde.browser), pde.kind, pde.val)
    /\ UNCHANGED <<now, lastCall, grantLog, sem, ptasks, doneLog, svars, xvars, cvars, avars>>

NextPde ==
    \/ PdeStart
    \/ PdeLaunch
    \/ PdeContext
    \/ \E k \in DOMAIN ptasks : WaitEnter(k)
    \/ \E k \in DOMAIN ptasks : WaitWake(k)
    \/ \E k \in DOMAIN ptasks : SemAcquire(k)
    \/ \E k \in DOMAIN ptasks : ExtractDone(k)
    \/ Tick
    \/ PdeGatherDone
    \/ PdeClose

SpecPde == InitPde /\ [][NextPde]_vars

\* The event loop runs every coroutine that can go on, sleeps end, and
\* every strategy.extract call ends.
PTaskStep(k) ==
    /\ k \in DOMAIN ptasks
    /\ (WaitEnter(k) \/ WaitWake(k) \/ SemAcquire(k) \/ ExtractDone(k))

FairPde ==
    /\ WF_vars(PdeStart)
    /\ WF_vars(PdeLaunch)
    /\ WF_vars(PdeContext)
    /\ \A k \in 1..MaxProducts : WF_vars(PTaskStep(k))
    /\ WF_vars(Tick)
    /\ WF_vars(PdeGatherDone)
    /\ WF_vars(PdeClose)

SpecPdeLive == InitPde /\ [][NextPde]_vars /\ FairPde

\* ------------------------------------------------ extract(url), taken alone
FetchResults == {Fetched("content", p) : p \in Pages}
                \cup {Fetched("none", NoPage), Fetched("raise", NoPage)}

InitExtract ==
    /\ exSite \in Sites
    /\ exUrl \in 1..MaxItems
    /\ exIn \in FetchResults
    /\ exOut = NoResult
    /\ IdleScrapers
    /\ IdlePde
    /\ IdleShared
    /\ IdleApi

\* ryans.py 23-50, startech.py 19-37.
ExtractCall ==
    /\ exOut = NoResult
    /\ exOut' = Extract(exSite, exUrl, exIn)
    /\ UNCHANGED <<exSite, exUrl, exIn, svars, pvars, cvars, avars>>

SpecExtract == InitExtract /\ [][ExtractCall]_vars

\* ------------------------------------------ overlapping calls of scrape()
\* RyansScraper.scrape keeps the SmartFetcher it makes in self.smart_fetcher
\* (ryans.py 73) and extract() reads it from there when it runs (ryans.py
\* 25).  Two calls overlap: on two RyansScraper objects, or on one.
CTask(p, u) == [pc |-> p, used |-> u]
SetCall(c, p, s, w, ts) ==
    calls' = [calls EXCEPT ![c] = [pc |-> p, session |-> s, pw |-> w, tasks |-> ts]]

InitShared ==
    /\ instOf \in {f \in [CallIds -> CallIds] : f[1] = 1}
    /\ smart_fetcher = [o \in CallIds |-> 0]
    /\ calls = [c \in CallIds |-> [NoCall EXCEPT !.pc = "called"]]
    /\ IdleScrapers
    /\ IdlePde
    /\ IdleExtract
    /\ IdleApi

\* gather() runs each extract() to its first await before the event loop
\* delivers a completion.
CLaunching == \E c \in CallIds : \E i \in DOMAIN calls[c].tasks : calls[c].tasks[i].pc = "ready"

\* ryans.py 61-79: the constructors, "self.smart_fetcher = SmartFetcher(..)"
\* and the search fetch, started on the object just stored.  A constructor
\* that raises leaves self.smart_fetcher as it was.
CallStart(c) ==
    /\ calls[c].pc = "called"
    /\ \E fail \in {"no", "session", "http", "playwright", "smart"} :
         IF fail = "no"
         THEN /\ smart_fetcher' = [smart_fetcher EXCEPT ![instOf[c]] = c]
              /\ SetCall(c, "search", "open", "created", <<>>)
         ELSE /\ smart_fetcher' = smart_fetcher
              /\ IF fail = "smart"
                 THEN SetCall(c, "close", "open", "created", <<>>)
                 ELSE SetCall(c, "done", IF fail = "session" THEN "none" ELSE "open",
                              "none", <<>>)
    /\ UNCHANGED <<instOf, svars, pvars, xvars, avars>>

\* ryans.py 74-92: the search fetch ends; without candidates scrape()
\* returns [], with n candidates extract_details makes n extract() tasks.
CallSearchDone(c) ==
    /\ calls[c].pc = "search"
    /\ ~CLaunching
    /\ \E n \in 0..MaxSharedItems :
         IF n = 0
         THEN SetCall(c, "close", calls[c].session, calls[c].pw, <<>>)
         ELSE SetCall(c, "gather", calls[c].session, calls[c].pw,
                      [k \in 1..n |-> CTask("ready", 0)])
    /\ UNCHANGED <<instOf, smart_fetcher, svars, pvars, xvars, avars>>

\* ryans.py 25: extract() starts, "self.smart_fetcher.fetch(url)" takes the
\* fetcher the scraper object holds now.
CTaskStart(c, i) ==
    /\ calls[c].pc = "gather"
    /\ i \in DOMAIN calls[c].tasks
    /\ calls[c].tasks[i].pc = "ready"
    /\ \A j \in 1..(i - 1) : calls[c].tasks[j].pc # "ready"
    /\ calls' = [calls EXCEPT ![c].tasks[i] = CTask("fetch", smart_fetcher[instOf[c]])]
    /\ UNCHANGED <<instOf, smart_fetcher, svars, pvars, xvars, avars>>

\* ryans.py 25-50: the fetch ends and extract() returns its record or {}.
CTaskDone(c, i) ==
    /\ calls[c].pc = "gather"
    /\ i \in DOMAIN calls[c].tasks
    /\ calls[c].tasks[i].pc = "fetch"
    /\ ~CLaunching
    /\ calls' = [calls EXCEPT ![c].tasks[i] = CTask("done", @.used)]
    /\ UNCHANGED <<instOf, smart_fetcher, svars, pvars, xvars, avars>>

\* ryans.py 57, 92-94: gather() has every task's value.
CallGatherDone(c) ==
    /\ calls[c].pc = "gather"
    /\ \A i \in DOMAIN calls[c].tasks : calls[c].tasks[i].pc = "done"
    /\ SetCall(c, "close", calls[c].session, calls[c].pw, calls[c].tasks)
    /\ UNCHANGED <<instOf, smart_fetcher, svars, pvars, xvars, avars>>

\* ryans.py 98-100: finally, "await client_session.close()".
CallClose(c) ==
    /\ calls[c].pc = "close"
    /\ IF calls[c].session # "none" /\ calls[c].pw # "none"
       THEN SetCall(c, "stop", "closed", calls[c].pw, calls[c].tasks)
       ELSE SetCall(c, "done", calls[c].session, calls[c].pw, calls[c].tasks)
    /\ UNCHANGED <<instOf, smart_fetcher, svars, pvars, xvars, avars>>

\* ryans.py 101: finally, "await playwright_fetcher.stop()".
CallStop(c) ==
    /\ calls[c].pc = "stop"
    /\ SetCall(c, "done", calls[c].session, "stopped", calls[c].tasks)
    /\ UNCHANGED <<instOf, smart_fetcher, svars, pvars, xvars, avars>>

NextShared ==
    \/ \E c \in CallIds : CallStart(c)
    \/ \E c \in CallIds : CallSearchDone(c)
    \/ \E c \in CallIds : \E i \in DOMAIN calls[c].tasks : CTaskStart(c, i)
    \/ \E c \in CallIds : \E i \in DOMAIN calls[c].tasks : CTaskDone(c, i)
    \/ \E c \in CallIds : CallGatherDone(c)
    \/ \E c \in CallIds : CallClose(c)
    \/ \E c \in CallIds : CallStop(c)

SpecShared == InitShared /\ [][NextShared]_vars

\* ------------------------------------------------------- the two fan-outs
\* One run of either fan-out: scrape() of one scraper with its
\* extract_details, or ProductDetailExtractor.extract_details.
InitFanOut == Init \/ InitPde
NextFanOut == Next \/ NextPde
SpecFanOut == InitFanOut /\ [][NextFanOut]_vars

\* ------------------------------------- AsyncCallAPIClient.search (common.py)
SetApi(p, b, n, o) == api' = [pc |-> p, browser |-> b, nClose |-> n, out |-> o]

InitSearch ==
    /\ IdleShared
    /\ api = [pc |-> "called", browser |-> "none", nClose |-> 0, out |-> "none"]
    /\ IdleScrapers
    /\ IdlePde
    /\ IdleExtract

\* common.py 45-64: wait(), async_playwright() and firefox.launch(); a
\* failure is caught (75-77): return False, with browser still None.
ApiLaunch ==
    /\ api.pc = "called"
    /\ \E ok \in BOOLEAN :
         IF ok THEN SetApi("page", "open", api.nClose, api.out)
               ELSE SetApi("finally", "none", api.nClose, "False")
    /\ UNCHANGED <<instOf, smart_fetcher, calls, svars, pvars, xvars>>

\* common.py 65-72: new_context(), new_page(), goto() and content(); a
\* failure is caught: return False.
ApiPage ==
    /\ api.pc = "page"
    /\ \E ok \in BOOLEAN :
         IF ok THEN SetApi("close", api.browser, api.nClose, api.out)
               ELSE SetApi("finally", api.browser, api.nClose, "False")
    /\ UNCHANGED <<instOf, smart_fetcher, calls, svars, pvars, xvars>>

\* common.py 73-74: "await browser.close()", "return content".
ApiClose ==
    /\ api.pc = "close"
    /\ SetApi("finally", "closed", api.nClose + 1, "content")
    /\ UNCHANGED <<instOf, smart_fetcher, calls, svars, pvars, xvars>>

\* common.py 78-80: finally, "if browser: await browser.close()".
ApiFinally ==
    /\ api.pc = "finally"
    /\ IF api.browser # "none"
       THEN SetApi("done", "closed", api.nClose + 1, api.out)
       ELSE SetApi("done", api.browser, api.nClose, api.out)
    /\ UNCHANGED <<instOf, smart_fetcher, calls, svars, pvars, xvars>>

NextSearch == ApiLaunch \/ ApiPage \/ ApiClose \/ ApiFinally

SpecSearch == InitSearch /\ [][NextSearch]_vars

\* ==================================================================== claims
Done(s) == pc[s] = "done"
Returned(s) == Done(s) /\ out[s].kind = "return"
\* The tasks whose fetch and extraction succeeded.
Succeeded(s) == {i \in DOMAIN tasks[s] : tasks[s][i].res.kind = "rec"}
Failed(s) == {i \in DOMAIN tasks[s] : tasks[s][i].res.kind \in {"empty", "raised"}}
InResult(s, r) == \E k \in DOMAIN out[s].val : out[s].val[k] = r

\* C1: when scrape() has returned, the record of every candidate whose
\* fetch and extraction succeeded is in the returned sequence, whichever
\* other candidates failed.
C1_FailureNeverAbortsBatch ==
    \A s \in Sites : Returned(s) =>
        \A i \in Succeeded(s) : InResult(s, tasks[s][i].res)

\* C1 for RyansScraper alone, whose extract() catches every exception.
C1_RyansKeepsRecords ==
    Returned("ryans") =>
        \A i \in Succeeded("ryans") : InResult("ryans", tasks["ryans"][i].res)

\* C4: when scrape() is left, the client session it made is closed and the
\* render fetcher it made is not running, on every exit path.
C4_ResourcesReleased ==
    \A s \in Sites : Done(s) => session[s] # "open" /\ pw[s] # "started"

\* C7: when scrape() is left, none of the extract() tasks it launched is
\* still in flight.
C7_NoTaskInFlightAtReturn ==
    \A s \in Sites : Done(s) => AllDone(s)

\* C7 for RyansScraper alone: its extract() never raises, so gather() ends
\* only when every task has ended.
C7_RyansJoinsAll ==
    pc["ryans"] \in {"close", "stop", "done"} => AllDone("ryans")

\* C8: with n candidates of which k failed, scrape() returns exactly n-k
\* entries, each the complete record of a candidate that succeeded; nothing
\* stands in the result for a failed candidate.
C8_PartialSuccessCount ==
    \A s \in Sites : (Returned(s) /\ AllDone(s)) =>
        /\ Len(out[s].val) = Cardinality(DOMAIN tasks[s]) - Cardinality(Failed(s))
        /\ \A k \in DOMAIN out[s].val :
              /\ out[s].val[k].kind = "rec"
              /\ \E i \in Succeeded(s) : out[s].val[k].url = tasks[s][i].url

\* C5: the SmartFetcher of a call starts in Light; once it is in Render it
\* stays in Render, and no fetch that starts while it is in Render calls
\* LightFetcher.
C5_StickyMode ==
    /\ [](\A s \in Sites : ~lightInRender[s])
    /\ [][\A s \in Sites :
            /\ (mode[s] = "none" /\ mode'[s] # "none") => mode'[s] = "Light"
            /\ mode[s] = "Render" => mode'[s] = "Render"]_vars

\* C5's case: after the switch to Render a later fetch went straight to
\* RenderFetcher and its page was extracted.
C5_Witness ==
    \E s \in Sites :
        /\ mode[s] = "Render"
        /\ renderDirect[s]
        /\ \E i \in DOMAIN tasks[s] : tasks[s][i].res.kind = "rec"

\* No item of the search result is a candidate: no href, or (Site B) typed.
NoLinks(s, items) ==
    \A i \in DOMAIN items : ~items[i].href \/ (s = "startech" /\ items[i].typed)

\* The search fetch failed or raised, or its result is empty, not parsable
\* or without candidate links.
BadSearch(s) ==
    \/ search[s] \in {"failed", "raised", "empty", "invalid"}
    \/ search[s] = "list" /\ NoLinks(s, cands[s])

\* C10 as stated: after such a search no per-item fetch is launched and
\* scrape() returns [] without raising.
C10_BadSearchReturnsEmpty ==
    \A s \in Sites : BadSearch(s) =>
        /\ tasks[s] = <<>>
        /\ Done(s) => out[s] = Return(<<>>)

\* C10 as amended: after such a search no per-item fetch is launched and
\* scrape() returns []; the one exception that can leave scrape() is that of
\* playwright_fetcher.stop() in the finally clause, failing to stop the
\* render fetcher the search fetch started.
C10_BadSearchEmptyOrStopFault ==
    \A s \in Sites : BadSearch(s) =>
        /\ tasks[s] = <<>>
        /\ Done(s) => \/ out[s] = Return(<<>>)
                      \/ out[s] = Raise /\ pw[s] = "started" /\ nStop[s] > 0

\* C10's case: Site B answered with text that is no JSON, and scrape() has
\* returned [] with its session closed.
C10_Witness ==
    /\ Done("startech")
    /\ search["startech"] = "invalid"
    /\ out["startech"] = Return(<<>>)
    /\ session["startech"] = "closed"

\* C3: when one site's scrape has failed and the other's has returned, the
\* view returns a mapping with [] for the failed site and the other site's
\* records as they were returned.
C3_SiteIsolation ==
    \A s, u \in Sites :
        (view.pc = "done" /\ Done(s) /\ out[s].kind = "raise"
            /\ Returned(u) /\ search[u] = "list") =>
            /\ view.kind = "return"
            /\ view[s] = <<>>
            /\ view[u] = out[u].val

\* C2: no two returns of wait() on one RateLimiter are closer together than
\* the interval, also when several tasks are inside wait() at once.
C2_GrantsSpaced ==
    \A i, j \in DOMAIN grantLog :
        i < j => grantLog[j] - grantLog[i] >= Interval

\* C6: at most SemCapacity (1) of the _process_product tasks are inside
\* strategy.extract at any time, and the semaphore never goes below zero.
Holders == {k \in DOMAIN ptasks : ptasks[k].pc = "extract"}

C6_AtMostCapacityHolders ==
    /\ Cardinality(Holders) <= SemCapacity
    /\ sem = SemCapacity - Cardinality(Holders)

\* C6's case: one task is inside strategy.extract while another, launched
\* with it, waits for the semaphore.
C6_Witness ==
    \E k, j \in DOMAIN ptasks : ptasks[k].pc = "extract" /\ ptasks[j].pc = "semwait"

\* C9: extract(url) of either site gives a failure value, and does not
\* raise, when the fetch gave no content or the page lacks its name, its
\* price or its description container.
MissingElement(p) == ~p.name \/ p.price = "none" \/ ~p.div

C9_ExtractNeverRaises ==
    (/\ exOut # NoResult
     /\ \/ exIn.kind = "none"
        \/ exIn.kind = "content" /\ MissingElement(exIn.page))
    => exOut.kind = "empty"

\* C9 for RyansScraper.extract alone.
C9_RyansExtractNeverRaises ==
    (exSite = "ryans" /\ exOut # NoResult) => exOut.kind \in {"rec", "empty"}

\* C11: when two calls of scrape() overlap, on two scraper objects or on
\* one, every extract() of a call fetches through the SmartFetcher that this
\* call made, and no call closes the session or stops the render fetcher
\* that a fetch in flight of the other call is using.
UsesOwnFetcher ==
    \A c \in CallIds : \A i \in DOMAIN calls[c].tasks :
        calls[c].tasks[i].used \in {0, c}
NoTeardownUnderUse ==
    \A c \in CallIds : \A i \in DOMAIN calls[c].tasks :
        \A d \in CallIds \ {c} :
            (calls[c].tasks[i].pc = "fetch" /\ calls[c].tasks[i].used = d) =>
                calls[d].session # "closed" /\ calls[d].pw # "stopped"

C11_FetcherStateNotShared == UsesOwnFetcher /\ NoTeardownUnderUse

\* C11 for calls on two scraper objects, as the view makes them.
C11_SeparateObjectsIsolated ==
    instOf[1] # instOf[2] => UsesOwnFetcher /\ NoTeardownUnderUse

\* C12: every request of a scrape starts after a return of
\* RateLimiter.wait() made for it: the search request and the fetch of each
\* candidate.  grantLog holds every return of RateLimiter.wait().
RequestsStarted(s) ==
    (IF pc[s] \notin {"idle", "called"} /\ search[s] # "ctor" THEN 1 ELSE 0)
    + Cardinality({i \in DOMAIN tasks[s] : tasks[s][i].pc # "ready"})

C12_RequestsAfterGrant ==
    \A s \in Sites : RequestsStarted(s) <= Len(grantLog)

\* C12 for ProductDetailExtractor._process_product alone: a task is past
\* wait() exactly when wait() has returned for it.
PastWait == {k \in DOMAIN ptasks : ptasks[k].pc \in {"semwait", "extract", "done"}}

C12_ProcessProductAfterGrant == Cardinality(PastWait) = Len(grantLog)

\* C13: for Site B the urls on which extract() is invoked are the hrefs of
\* the products of the search JSON that have no type and a non-empty href:
\* never another one while the tasks start, exactly these once gather() has
\* run.
Candidates(items) == {i \in DOMAIN items : ~items[i].typed /\ items[i].href}
FetchedUrls(s) == {tasks[s][i].url : i \in {j \in DOMAIN tasks[s] : tasks[s][j].pc # "ready"}}

C13_TypedItemsExcluded ==
    search["startech"] = "list" =>
        /\ FetchedUrls("startech") \subseteq Candidates(cands["startech"])
        /\ pc["startech"] \in {"close", "stop", "done"} =>
              FetchedUrls("startech") = Candidates(cands["startech"])

\* C13's case: the search JSON had a typed item with an href beside a product
\* with an href, and scrape() returned the record of the product alone.
C13_Witness ==
    /\ Returned("startech")
    /\ \E i, j \in DOMAIN cands["startech"] :
          /\ cands["startech"][i].typed /\ cands["startech"][i].href
          /\ ~cands["startech"][j].typed /\ cands["startech"][j].href
          /\ FetchedUrls("startech") = {j}
          /\ Len(out["startech"].val) = 1
          /\ out["startech"].val[1].url = j

\* C14: the record StarTechScraper.extract gives has the text of the sale
\* price tag (ins) as its price when the price cell holds one beside the list
\* price, and the text of the price cell when it holds none.
C14_SalePricePreferred ==
    (exSite = "startech" /\ exOut.kind = "rec") =>
        /\ exIn.page.price = "ins" => exOut.price = "sale"
        /\ exIn.page.price = "plain" => exOut.price = "list"

\* C14's case: a page with a sale price tag in its price cell was extracted.
C14_Witness ==
    /\ exSite = "startech"
    /\ exIn.kind = "content"
    /\ exIn.page.price = "ins"
    /\ exOut = Rec(exUrl, "sale", "ul")

\* C15: with every strategy.extract call ending and fair scheduling, each
\* _process_product task that was launched gets the semaphore and then
\* completes, extract_details returns, and the semaphore is at its full
\* capacity when it has returned.
PTaskAt(k, p) == k \in DOMAIN ptasks /\ ptasks[k].pc = p

C15_GateLive ==
    /\ \A k \in 1..MaxProducts : PTaskAt(k, "new") ~> PTaskAt(k, "extract")
    /\ \A k \in 1..MaxProducts : PTaskAt(k, "extract") ~> PTaskAt(k, "done")
    /\ <>(pde.pc = "done")
    /\ [](pde.pc = "done" => sem = SemCapacity)

\* C15's case: the largest batch was launched at once, every task went
\* through the semaphore, and extract_details returned with the slot free.
C15_Witness ==
    /\ pde.pc = "done"
    /\ pde.n = MaxProducts
    /\ Len(doneLog) = MaxProducts
    /\ sem = SemCapacity

C17_ReleasedExactlyOnce ==
    \A s \in Sites : Done(s) =>
        /\ session[s] # "none" => nClose[s] = 1
        /\ pw[s] # "none" => nStop[s] = 1

\* C17, the upper half alone: no resource is released twice.
C17_ReleasedAtMostOnce ==
    \A s \in Sites : nClose[s] <= 1 /\ nStop[s] <= 1

\* C17 for AsyncCallAPIClient.search: a browser that was launched has its
\* close() called exactly once when search() is left.
C17_SearchClosesOnce ==
    (api.pc = "done" /\ api.browser # "none") => api.nClose = 1

\* C18: the result of a fan-out is in candidate order, whatever the order
\* in which the tasks completed.  extract_details of ProductDetailExtractor
\* (aiohttp) returns one entry per input product, entry i with the url of
\* product i; extract_details of RyansScraper returns one entry per
\* candidate with an href, entry k being what extract() gave for the k-th of
\* them.
C18_PdeInProductOrder ==
    (pde.client = "aiohttp" /\ pde.pc = "done") =>
        /\ Len(pde.val) = pde.n
        /\ \A i \in 1..pde.n : pde.val[i].url = i

C18_RyansInCandidateOrder ==
    (Returned("ryans") /\ search["ryans"] = "list") =>
        /\ Len(out["ryans"].val) = Len(Launched("ryans", cands["ryans"]))
        /\ \A k \in DOMAIN out["ryans"].val :
              /\ out["ryans"].val[k] = tasks["ryans"][k].res
              /\ tasks["ryans"][k].url = Launched("ryans", cands["ryans"])[k]
              /\ out["ryans"].val[k].kind = "rec" =>
                    out["ryans"].val[k].url = Launched("ryans", cands["ryans"])[k]

C18_ResultInCandidateOrder == C18_PdeInProductOrder /\ C18_RyansInCandidateOrder

\* C18's case: the tasks of ProductDetailExtractor completed in another
\* order than they were launched in, and the result came back.
C18_Witness ==
    /\ pde.client = "aiohttp"
    /\ pde.pc = "done"
    /\ \E i \in DOMAIN doneLog : doneLog[i] # i
    /\ Len(pde.val) = pde.n

\* C18's case for RyansScraper: three candidates, the second without a
\* record, and the records of the first and the third in their places.
C18_RyansWitness ==
    /\ Returned("ryans")
    /\ Len(out["ryans"].val) = 3
    /\ out["ryans"].val[1].kind = "rec"
    /\ out["ryans"].val[2].kind = "empty"
    /\ out["ryans"].val[3].kind = "rec"

====
